---- MODULE Spec2Model ----
(***************************************************************************)
(* The local credential vault of passlane (genpass): the files under       *)
(* ~/.passlane (src/src/store.rs) and the commands working on them         *)
(* (src/src/actions.rs).                                                   *)
(*                                                                         *)
(*   .master_pwd    hashFile    the bcrypt hash of the master password     *)
(*   .store         storeFile   the CSV file of encrypted credentials      *)
(*   .store_new     storeNew    the temporary file of a rotation           *)
(*   .access_token  tokenFile   the access token slot                      *)
(*                                                                         *)
(* Strings whose characters matter (the token file) are sequences of       *)
(* one-character strings; Option<T> is a sequence of length 0 or 1.        *)
(***************************************************************************)
EXTENDS Integers, Sequences, FiniteSets, TLC

VARIABLES
    hashFile,   \* .master_pwd : [exists, data]
    storeFile,  \* .store      : [exists, data], data = the rows
    storeNew,   \* .store_new  : [exists, data]
    tokenFile,  \* .access_token : [exists, data], data = the characters
    pc,         \* position inside a command that takes several steps, else "idle"
    rot,        \* its locals: old_password, new_password, reader position, wtr buffer
    call,       \* the operation last invoked, with its inputs
    pre,        \* the files as they were when it was invoked
    ret,        \* what it returned
    out,        \* the line the command printed
    calls       \* the collaborators it called, in order

vars == <<hashFile, storeFile, storeNew, tokenFile, pc, rot, call, pre, ret, out, calls>>

(***************************************************************************)
(* Bounds and input domains                                                *)
(***************************************************************************)
MaxRecords == 2
MaxClock == 2

Passwords == {"p1", "p2"}
Salts == {"salt1", "salt2"}
Services == {"s1", "s2"}
Usernames == {"u1"}
Secrets == {"x1", "x2"}

None == <<>>
Some(x) == <<x>>

NoFile == [exists |-> FALSE, data |-> <<>>]
File(d) == [exists |-> TRUE, data |-> d]

\* Credentials { service, username, password } with a plaintext password
PlainCredentials ==
    [service : Services, username : Usernames, password : {<<x>> : x \in Secrets}]

(***************************************************************************)
(* Results                                                                 *)
(***************************************************************************)
NoResult == [status |-> "None", msg |-> "", token |-> None]
Ok == [status |-> "Ok", msg |-> "", token |-> None]
OkToken(t) == [status |-> "Ok", msg |-> "", token |-> Some(t)]
Err(m) == [status |-> "Err", msg |-> m, token |-> None]
Panic(m) == [status |-> "Panic", msg |-> m, token |-> None]
Killed == [status |-> "Killed", msg |-> "", token |-> None]

Unused == [status |-> "Unused", msg |-> "", token |-> None]

NoChoice == [kind |-> "none", index |-> 0]

NoCall ==
    [op |-> "none", old |-> "", new |-> "", master_pwd |-> "", store_if_new |-> FALSE,
     retyped |-> "", now |-> 0, refresh |-> Unused, login |-> Unused,
     grep |-> "", keychain |-> FALSE, matches |-> <<>>, choice |-> NoChoice,
     answer |-> Unused]

NoRot == [old |-> "", new |-> "", idx |-> 0, wtr |-> <<>>]

Snapshot == [hash |-> hashFile, store |-> storeFile, token |-> tokenFile]

(***************************************************************************)
(* Master password hash: store.rs 63-81                                    *)
(***************************************************************************)
\* pwhash::bcrypt::hash: a one-way hash under a fresh random salt, written
\* here as a tagged value that names the salt and the password hashed
BcryptHash(pwd, salt) == <<"$2b$", salt, pwd>>

\* pwhash::bcrypt::verify: the password hashed under the salt of `hash` is `hash`
BcryptVerify(pwd, hash) == Len(hash) = 3 /\ hash = BcryptHash(pwd, hash[2])

\* save_master_password: File::create truncates, then the hash is written
save_master_password(pwd, salt) == File(BcryptHash(pwd, salt))

\* A variant of verify_with_saved that accepts whatever the candidate is
verify_with_saved_accepting(file, master_pwd) == Ok

\* verify_with_saved: the candidate is checked against the persisted hash
verify_with_saved(file, master_pwd) ==
    IF BcryptVerify(master_pwd, file.data) THEN Ok ELSE Err("Incorrect password")

\* A variant of verify_master_password that rejects every candidate when no
\* hash is persisted and none is to be stored
verify_master_password_strict(file, master_pwd, store_if_new, retyped, salt) ==
    IF file.exists
    THEN [ret |-> verify_with_saved(file, master_pwd), hash |-> file, calls |-> <<>>]
    ELSE IF store_if_new
         THEN IF master_pwd = retyped
              THEN [ret |-> Ok, hash |-> save_master_password(master_pwd, salt),
                    calls |-> <<"ask_password">>]
              ELSE [ret |-> Err("Passwords did not match"), hash |-> file,
                    calls |-> <<"ask_password">>]
         ELSE [ret |-> Err("Incorrect password"), hash |-> file, calls |-> <<>>]

\* A variant of verify_master_password that saves without comparing the re-entry
verify_master_password_unchecked(file, master_pwd, store_if_new, retyped, salt) ==
    IF file.exists
    THEN [ret |-> verify_with_saved(file, master_pwd), hash |-> file, calls |-> <<>>]
    ELSE IF store_if_new
         THEN [ret |-> Ok, hash |-> save_master_password(master_pwd, salt),
               calls |-> <<"ask_password">>]
         ELSE [ret |-> Ok, hash |-> file, calls |-> <<>>]

\* verify_master_password, as [ret, hash, calls]: what it returns, the hash file
\* afterwards and the prompts it made; `retyped` is what ask_password answers
\* and `salt` the salt bcrypt draws if it is called
verify_master_password(file, master_pwd, store_if_new, retyped, salt) ==
    IF file.exists
    THEN [ret |-> verify_with_saved(file, master_pwd), hash |-> file, calls |-> <<>>]
    ELSE IF store_if_new
         THEN IF master_pwd = retyped
              THEN [ret |-> Ok, hash |-> save_master_password(master_pwd, salt),
                    calls |-> <<"ask_password">>]
              ELSE [ret |-> Err("Passwords did not match"), hash |-> file,
                    calls |-> <<"ask_password">>]
         ELSE [ret |-> Ok, hash |-> file, calls |-> <<>>]

(***************************************************************************)
(* Record encryption (password.rs is not part of the sources; after        *)
(* spec 4.1: decrypt fails on a wrong passphrase)                          *)
(***************************************************************************)
Encrypt(creds, pwd) == [creds EXCEPT !.password = <<"enc", pwd>> \o @]

DecryptOk(creds, pwd) ==
    /\ Len(creds.password) >= 2
    /\ creds.password[1] = "enc"
    /\ creds.password[2] = pwd

Decrypt(creds, pwd) == [creds EXCEPT !.password = SubSeq(@, 3, Len(@))]

(***************************************************************************)
(* Commands                                                                *)
(***************************************************************************)
Idle == pc = "idle"

\* store::verify_master_password called with a candidate
VerifyMasterPassword(master_pwd, store_if_new, retyped, salt) ==
    /\ Idle
    /\ LET r == verify_master_password(hashFile, master_pwd, store_if_new, retyped, salt)
       IN /\ hashFile' = r.hash
          /\ ret' = r.ret
          /\ calls' = r.calls
          /\ call' = [NoCall EXCEPT !.op = "verify_master_password",
                                    !.master_pwd = master_pwd,
                                    !.store_if_new = store_if_new,
                                    !.retyped = IF r.calls = <<>> THEN "" ELSE retyped]
    /\ pre' = Snapshot
    /\ out' = ""
    /\ UNCHANGED <<storeFile, storeNew, tokenFile, pc, rot>>

\* AddAction::save in local mode (actions.rs 132-145): store::save appends one
\* encrypted record (store::save is not part of the sources; after spec 4.3
\* append), then the keychain is written if asked for
Save(master_pwd, creds, keychain) ==
    /\ Idle
    /\ ~tokenFile.exists
    /\ Len(storeFile.data) < MaxRecords
    /\ storeFile' = File(Append(storeFile.data, Encrypt(creds, master_pwd)))
    /\ call' = [NoCall EXCEPT !.op = "save", !.master_pwd = master_pwd,
                              !.keychain = keychain]
    /\ pre' = Snapshot
    /\ ret' = Ok
    /\ out' = "Saved."
    /\ calls' = <<"store::save">> \o (IF keychain THEN <<"keychain::save">> ELSE <<>>)
    /\ UNCHANGED <<hashFile, storeNew, tokenFile, pc, rot>>

(***************************************************************************)
(* Rotation of the master password in local mode:                          *)
(* UpdateMasterPasswordAction::execute (actions.rs 405-419) calls          *)
(* update_master_password (actions.rs 390-402), which calls                *)
(* store::update_master_password (store.rs 96-113).                        *)
(*                                                                         *)
(* csv::Writer buffers the rows it serializes and writes them to its file  *)
(* when the buffer (8 KiB) is full, on flush and when it is dropped.  The  *)
(* stores of this model are far below 8 KiB, so the rows reach the file    *)
(* only when wtr is dropped: at the early return or at the end of the      *)
(* function.                                                               *)
(***************************************************************************)
\* actions.rs 399-401: the value of store::update_master_password is dropped
update_master_password_result(storeRet) == Ok

\* actions.rs 409-417: `?` on the result, then the line printed
execute_outcome(r) ==
    IF r.status = "Ok"
    THEN "Password changed"
    ELSE "Error: Failed to update master password"

\* store.rs 98: open_password_file(false) on a missing file asks for create_new
\* without write access, which OpenOptions refuses: the expect panics
open_password_file_readonly(file) ==
    IF file.exists THEN Ok ELSE Panic("Unable to open password file")

\* A variant of rotate_row that skips a row it cannot decrypt
rotate_row_skipping(creds, old, new, wtr) ==
    IF DecryptOk(creds, old)
    THEN [ret |-> Ok, wtr |-> Append(wtr, Encrypt(Decrypt(creds, old), new))]
    ELSE [ret |-> Ok, wtr |-> wtr]

\* A variant of rotate_row that serializes the re-encrypted row twice
rotate_row_doubling(creds, old, new, wtr) ==
    IF DecryptOk(creds, old)
    THEN [ret |-> Ok,
          wtr |-> wtr \o <<Encrypt(Decrypt(creds, old), new), Encrypt(Decrypt(creds, old), new)>>]
    ELSE [ret |-> Err("decrypt"), wtr |-> wtr]

\* store.rs 104-107, one round of the loop on the row `creds`:
\* Err leaves the function, otherwise the re-encrypted row is serialized to wtr
rotate_row(creds, old, new, wtr) ==
    IF DecryptOk(creds, old)
    THEN [ret |-> Ok, wtr |-> Append(wtr, Encrypt(Decrypt(creds, old), new))]
    ELSE [ret |-> Err("decrypt"), wtr |-> wtr]

\* execute asks for both passwords, local mode is chosen (actions.rs 391), the
\* store file is opened and .store_new is created empty (store.rs 97-101)
UpdateMasterPassword(old, new) ==
    /\ Idle
    /\ ~tokenFile.exists
    /\ call' = [NoCall EXCEPT !.op = "update_master_password", !.old = old, !.new = new]
    /\ pre' = Snapshot
    /\ calls' = <<"store::update_master_password">>
    /\ LET o == open_password_file_readonly(storeFile)
       IN IF o.status = "Ok"
          THEN /\ storeNew' = File(<<>>)
               /\ rot' = [old |-> old, new |-> new, idx |-> 1, wtr |-> <<>>]
               /\ pc' = "loop"
               /\ ret' = NoResult
               /\ out' = ""
          ELSE /\ ret' = o
               /\ out' = "panic"
               /\ UNCHANGED <<storeNew, rot, pc>>
    /\ UNCHANGED <<hashFile, storeFile, tokenFile>>

\* store.rs 103-108: the next row; on a decryption error wtr is dropped (its
\* rows go to .store_new), the error is returned, and the command goes on
\* with actions.rs 401 and 412-417
RotateRow ==
    /\ pc = "loop"
    /\ rot.idx <= Len(storeFile.data)
    /\ LET r == rotate_row(storeFile.data[rot.idx], rot.old, rot.new, rot.wtr)
       IN IF r.ret.status = "Ok"
          THEN /\ rot' = [rot EXCEPT !.idx = @ + 1, !.wtr = r.wtr]
               /\ UNCHANGED <<storeNew, pc, ret, out>>
          ELSE /\ storeNew' = File(storeNew.data \o r.wtr)
               /\ rot' = NoRot
               /\ pc' = "idle"
               /\ ret' = r.ret
               /\ out' = execute_outcome(update_master_password_result(r.ret))
    /\ UNCHANGED <<hashFile, storeFile, tokenFile, call, pre, calls>>

\* A variant of RotateSaveHash that removes the hash file and writes none
RotateSaveHashRemoving(salt) ==
    /\ pc = "loop"
    /\ rot.idx > Len(storeFile.data)
    /\ hashFile' = NoFile
    /\ calls' = Append(calls, "save_master_password")
    /\ pc' = "rename"
    /\ UNCHANGED <<storeFile, storeNew, tokenFile, rot, call, pre, ret, out>>

\* store.rs 109: after the last row the new hash is saved
RotateSaveHash(salt) ==
    /\ pc = "loop"
    /\ rot.idx > Len(storeFile.data)
    /\ hashFile' = save_master_password(rot.new, salt)
    /\ calls' = Append(calls, "save_master_password")
    /\ pc' = "rename"
    /\ UNCHANGED <<storeFile, storeNew, tokenFile, rot, call, pre, ret, out>>

\* store.rs 110: .store_new, as it is on disk, is renamed over .store
RotateRename ==
    /\ pc = "rename"
    /\ storeFile' = storeNew
    /\ storeNew' = NoFile
    /\ calls' = Append(calls, "rename")
    /\ pc' = "return"
    /\ UNCHANGED <<hashFile, tokenFile, rot, call, pre, ret, out>>

\* store.rs 112-113: Ok(true) is returned and wtr is dropped, which writes
\* its rows to the file it has open, now named .store; then actions.rs 401
\* and 412-417
RotateReturn ==
    /\ pc = "return"
    /\ storeFile' = File(storeFile.data \o rot.wtr)
    /\ rot' = NoRot
    /\ pc' = "idle"
    /\ ret' = Ok
    /\ out' = execute_outcome(update_master_password_result(Ok))
    /\ UNCHANGED <<hashFile, storeNew, tokenFile, call, pre, calls>>

\* The process ends inside store::update_master_password: it is killed (the
\* rows in wtr are lost), or an expect panics (store.rs 104, 107, 111) and
\* the unwinding drops wtr, which writes its rows to the file it has open
Crash(unwind) ==
    /\ pc \in {"loop", "rename", "return"}
    /\ IF unwind /\ pc # "return"
       THEN storeNew' = File(storeNew.data \o rot.wtr) /\ UNCHANGED storeFile
       ELSE IF unwind
            THEN storeFile' = File(storeFile.data \o rot.wtr) /\ UNCHANGED storeNew
            ELSE UNCHANGED <<storeFile, storeNew>>
    /\ rot' = NoRot
    /\ pc' = "idle"
    /\ ret' = IF unwind THEN Panic("expect") ELSE Killed
    /\ out' = IF unwind THEN "panic" ELSE ""
    /\ UNCHANGED <<hashFile, tokenFile, call, pre, calls>>

(***************************************************************************)
(* The vault: a fresh ~/.passlane, then any sequence of commands           *)
(***************************************************************************)
Init ==
    /\ hashFile = NoFile
    /\ storeFile = NoFile
    /\ storeNew = NoFile
    /\ tokenFile = NoFile
    /\ pc = "idle"
    /\ rot = NoRot
    /\ call = NoCall
    /\ pre = [hash |-> NoFile, store |-> NoFile, token |-> NoFile]
    /\ ret = NoResult
    /\ out = ""
    /\ calls = <<>>

Next ==
    \/ \E p \in Passwords, b \in BOOLEAN, r \in Passwords, s \in Salts :
           VerifyMasterPassword(p, b, r, s)
    \/ \E p \in Passwords, c \in PlainCredentials, k \in BOOLEAN : Save(p, c, k)
    \/ \E o \in Passwords, n \in Passwords : UpdateMasterPassword(o, n)
    \/ RotateRow
    \/ \E s \in Salts : RotateSaveHash(s)
    \/ RotateRename
    \/ RotateReturn
    \/ \E u \in BOOLEAN : Crash(u)

Spec == Init /\ [][Next]_vars

(***************************************************************************)
(* The access token slot: store.rs 126-193                                 *)
(*                                                                         *)
(* AccessTokens { access_token: String, refresh_token: Option<String>,     *)
(*                expires_in: Option<Duration>, created_timestamp }        *)
(***************************************************************************)
DigitChars == <<"0", "1", "2", "3", "4", "5", "6", "7", "8", "9">>

IsDigit(c) == \E d \in 1..10 : DigitChars[d] = c

DigitValue(c) == (CHOOSE d \in 1..10 : DigitChars[d] = c) - 1

RECURSIVE NatToStr(_)
NatToStr(n) ==
    IF n < 10
    THEN <<DigitChars[n + 1]>>
    ELSE NatToStr(n \div 10) \o <<DigitChars[(n % 10) + 1]>>

\* Display of an i64, as format! writes it
I64ToStr(n) == IF n < 0 THEN <<"-">> \o NatToStr(-n) ELSE NatToStr(n)

RECURSIVE DigitsValue(_)
DigitsValue(s) ==
    IF s = <<>> THEN 0 ELSE 10 * DigitsValue(SubSeq(s, 1, Len(s) - 1)) + DigitValue(s[Len(s)])

\* i64::from_str: an optional sign, then one digit or more, and nothing else
ParseI64(s) ==
    LET signed == s # <<>> /\ s[1] \in {"+", "-"}
        body == IF signed THEN Tail(s) ELSE s
    IN IF body # <<>> /\ \A i \in 1..Len(body) : IsDigit(body[i])
       THEN [ok |-> TRUE,
             val |-> IF signed /\ s[1] = "-" THEN -DigitsValue(body) ELSE DigitsValue(body)]
       ELSE [ok |-> FALSE, val |-> 0]

\* str::split(","): the pieces between the commas, empty pieces included
RECURSIVE Split(_)
Split(s) ==
    IF \A i \in 1..Len(s) : s[i] # ","
    THEN <<s>>
    ELSE LET i == CHOOSE k \in 1..Len(s) :
                      s[k] = "," /\ \A j \in 1..(k - 1) : s[j] # ","
         IN <<SubSeq(s, 1, i - 1)>> \o Split(SubSeq(s, i + 1, Len(s)))

\* A variant of format_token without the comma that ends the last field
format_token_unterminated(token) ==
    token.access_token \o <<",">>
    \o (IF token.refresh_token # None THEN token.refresh_token[1] ELSE <<>>) \o <<",">>
    \o I64ToStr(IF token.expires_in # None THEN token.expires_in[1] ELSE 0) \o <<",">>
    \o token.created_timestamp

\* store.rs 139-153: "{},{},{},{}," of the four fields, None written as "" and 0
format_token(token) ==
    token.access_token \o <<",">>
    \o (IF token.refresh_token # None THEN token.refresh_token[1] ELSE <<>>) \o <<",">>
    \o I64ToStr(IF token.expires_in # None THEN token.expires_in[1] ELSE 0) \o <<",">>
    \o token.created_timestamp \o <<",">>

\* store.rs 129-135 and 154: the file is opened for writing without truncate
\* and without append, so write_all writes over its first bytes and leaves
\* what lies behind them
write_all(file, contents) ==
    IF file.exists /\ Len(file.data) > Len(contents)
    THEN File(contents \o SubSeq(file.data, Len(contents) + 1, Len(file.data)))
    ELSE File(contents)

store_access_token(file, token) == write_all(file, format_token(token))

\* A variant of has_logged_in that takes a missing token file for a login
has_logged_in_inverted(file) == ~file.exists

\* store::has_logged_in, store.rs 158-160
has_logged_in(file) == file.exists

\* store::get_access_token, store.rs 162-193
store_get_access_token(file) ==
    IF ~file.exists
    THEN Err("Please login first with: passlane -l")
    ELSE LET parts == Split(file.data)
         IN IF Len(parts) < 3
            THEN Panic("index out of bounds")
            ELSE LET expires == ParseI64(parts[3])
                 IN IF ~expires.ok
                    THEN Err("invalid digit found in string")
                    ELSE IF Len(parts) < 4
                         THEN Panic("index out of bounds")
                         ELSE OkToken(
                                  [access_token |-> parts[1],
                                   refresh_token |->
                                       IF parts[2] # <<>> THEN Some(parts[2]) ELSE None,
                                   expires_in |->
                                       IF expires.val > 0 THEN Some(expires.val) ELSE None,
                                   created_timestamp |-> parts[4]])

\* AccessTokens::is_expired (auth.rs is not part of the sources; after spec 3:
\* expires_in present and created_timestamp + expires_in <= now)
is_expired(token, now) ==
    /\ token.expires_in # None
    /\ ParseI64(token.created_timestamp).val + token.expires_in[1] <= now

\* A variant of get_access_token_load that takes a missing slot for an expired token
get_access_token_load_missing_as_expired(file, now) ==
    IF ~has_logged_in(file)
    THEN [ret |-> NoResult, refresh |-> TRUE]
    ELSE LET loaded == store_get_access_token(file)
         IN IF loaded.status # "Ok"
            THEN [ret |-> loaded, refresh |-> FALSE]
            ELSE IF is_expired(loaded.token[1], now)
                 THEN [ret |-> NoResult, refresh |-> TRUE]
                 ELSE [ret |-> loaded, refresh |-> FALSE]

\* A variant of get_access_token_load with the expiry test negated
get_access_token_load_negated(file, now) ==
    IF ~has_logged_in(file)
    THEN [ret |-> Err("You are not logged in to the Passlane Online Vault."),
          refresh |-> FALSE]
    ELSE LET loaded == store_get_access_token(file)
         IN IF loaded.status # "Ok"
            THEN [ret |-> loaded, refresh |-> FALSE]
            ELSE IF ~is_expired(loaded.token[1], now)
                 THEN [ret |-> NoResult, refresh |-> TRUE]
                 ELSE [ret |-> loaded, refresh |-> FALSE]

\* actions::get_access_token, actions.rs 18-42, in the three parts that the
\* two collaborator calls separate.
\* actions.rs 20-26 and 39-41: up to the expiry test; `refresh` says that
\* auth::exchange_refresh_token is called next
get_access_token_load(file, now) ==
    IF ~has_logged_in(file)
    THEN [ret |-> Err("You are not logged in to the Passlane Online Vault."),
          refresh |-> FALSE]
    ELSE LET loaded == store_get_access_token(file)
         IN IF loaded.status # "Ok"
            THEN [ret |-> loaded, refresh |-> FALSE]
            ELSE IF is_expired(loaded.token[1], now)
                 THEN [ret |-> NoResult, refresh |-> TRUE]
                 ELSE [ret |-> loaded, refresh |-> FALSE]

\* A variant of get_access_token_refreshed that returns the refresh error
get_access_token_refreshed_giving_up(file, answer) ==
    IF answer.status = "Ok"
    THEN [ret |-> answer, file |-> store_access_token(file, answer.token[1]),
          login |-> FALSE]
    ELSE [ret |-> answer, file |-> file, login |-> FALSE]

\* actions.rs 27-33: the answer of auth::exchange_refresh_token; `login` says
\* that auth::login is called next
get_access_token_refreshed(file, answer) ==
    IF answer.status = "Ok"
    THEN [ret |-> answer, file |-> store_access_token(file, answer.token[1]),
          login |-> FALSE]
    ELSE [ret |-> NoResult, file |-> file, login |-> TRUE]

\* actions.rs 34-36: the answer of auth::login
get_access_token_login(file, answer) ==
    IF answer.status = "Ok"
    THEN [ret |-> answer, file |-> store_access_token(file, answer.token[1])]
    ELSE [ret |-> answer, file |-> file]

\* A caller obtains the token (push, search, delete, rotate in remote mode)
GetAccessToken(now) ==
    /\ Idle
    /\ call' = [NoCall EXCEPT !.op = "get_access_token", !.now = now]
    /\ pre' = Snapshot
    /\ calls' = <<>>
    /\ out' = ""
    /\ LET r == get_access_token_load(tokenFile, now)
       IN /\ ret' = r.ret
          /\ pc' = IF r.refresh THEN "refresh" ELSE "idle"
    /\ UNCHANGED <<hashFile, storeFile, storeNew, tokenFile, rot>>

\* auth::exchange_refresh_token answers
RefreshAnswer(answer) ==
    /\ pc = "refresh"
    /\ call' = [call EXCEPT !.refresh = answer]
    /\ LET r == get_access_token_refreshed(tokenFile, answer)
       IN /\ tokenFile' = r.file
          /\ ret' = r.ret
          /\ pc' = IF r.login THEN "login" ELSE "idle"
          /\ calls' = calls \o <<"exchange_refresh_token">>
                      \o (IF r.login THEN <<>> ELSE <<"store_access_token">>)
    /\ UNCHANGED <<hashFile, storeFile, storeNew, rot, pre, out>>

\* auth::login answers
LoginAnswer(answer) ==
    /\ pc = "login"
    /\ call' = [call EXCEPT !.login = answer]
    /\ LET r == get_access_token_login(tokenFile, answer)
       IN /\ tokenFile' = r.file
          /\ ret' = r.ret
          /\ calls' = calls \o <<"login">>
                      \o (IF r.ret.status = "Ok" THEN <<"store_access_token">> ELSE <<>>)
    /\ pc' = "idle"
    /\ UNCHANGED <<hashFile, storeFile, storeNew, rot, pre, out>>

\* LoginAction::login and execute, actions.rs 69-90
Login(login) ==
    /\ Idle
    /\ call' = [NoCall EXCEPT !.op = "login", !.login = login]
    /\ pre' = Snapshot
    /\ IF login.status = "Ok"
       THEN /\ tokenFile' = store_access_token(tokenFile, login.token[1])
            /\ calls' = <<"login", "store_access_token">>
            /\ ret' = Ok
            /\ out' = "Logged in successfully. Online vaults in use."
       ELSE /\ tokenFile' = tokenFile
            /\ calls' = <<"login">>
            /\ ret' = login
            /\ out' = "Login failed"
    /\ UNCHANGED <<hashFile, storeFile, storeNew, pc, rot>>

\* The tokens the remote collaborator may answer with, and the clock
AccessStrs == {<<"a">>, <<"a", "b", "c">>}
RefreshStrs == {<<"r">>}
Durations == {0, 1, 10}
Timestamps == {NatToStr(t) : t \in 0..(MaxClock - 1)}
Clock == 0..MaxClock

Tokens ==
    [access_token : AccessStrs,
     refresh_token : {None} \cup {Some(r) : r \in RefreshStrs},
     expires_in : {None} \cup {Some(d) : d \in Durations},
     created_timestamp : Timestamps]

Answers == {Err("rejected")} \cup {OkToken(t) : t \in Tokens}

TokenNext ==
    \/ \E l \in Answers : Login(l)
    \/ \E now \in Clock : GetAccessToken(now)
    \/ \E r \in Answers : RefreshAnswer(r)
    \/ \E l \in Answers : LoginAnswer(l)

TokenSpec == Init /\ [][TokenNext]_vars

(***************************************************************************)
(* The commands of actions.rs in both modes.  A command takes the remote   *)
(* branch when the token file exists (store::has_logged_in) and the local  *)
(* branch otherwise.  The online vault, the keychain and the prompts are   *)
(* collaborators: their calls are recorded in `calls`, their answers are   *)
(* inputs.                                                                 *)
(***************************************************************************)
\* get_access_token, actions.rs 18-42, as one call: what it returns, the token
\* file afterwards and the collaborators it called; `refresh` and `login` are
\* what auth::exchange_refresh_token and auth::login answer if they are called
get_access_token(file, now, refresh, login) ==
    LET l == get_access_token_load(file, now)
    IN IF ~l.refresh
       THEN [ret |-> l.ret, file |-> file, calls |-> <<>>]
       ELSE LET r == get_access_token_refreshed(file, refresh)
            IN IF ~r.login
               THEN [ret |-> r.ret, file |-> r.file,
                     calls |-> <<"exchange_refresh_token", "store_access_token">>]
               ELSE LET g == get_access_token_login(file, login)
                    IN [ret |-> g.ret, file |-> g.file,
                        calls |-> <<"exchange_refresh_token", "login">>
                                  \o (IF g.ret.status = "Ok"
                                      THEN <<"store_access_token">> ELSE <<>>)]

\* The token the collaborators answer with in the facade: valid at time 0,
\* expired from time 1 on
FacadeTokens ==
    {[access_token |-> <<"a">>, refresh_token |-> Some(<<"r">>), expires_in |-> Some(1),
      created_timestamp |-> <<"0">>]}

FacadeAnswers == {Err("rejected")} \cup {OkToken(t) : t \in FacadeTokens}

\* Every way a get_access_token call on `file` can end
TokenOutcomes(file) ==
    {get_access_token(file, now, r, l) :
         now \in Clock, r \in FacadeAnswers, l \in FacadeAnswers}

\* The master password typed when saving or importing, and the salt bcrypt
\* draws, in the facade
FacadePasswords == {"p1"}
FacadeSalts == {"salt1"}

\* The answers of the online vault to a push, a delete or a rotation
RemoteAnswers == {Ok, Err("online vault")}

\* The credentials the user enters or imports in the facade
FacadeCredentials == {[service |-> "s1", username |-> "u1", password |-> <<"x1">>]}

\* The answers of online_vault::grep: an error, or the matching records
RemoteMatches ==
    {<<>>,
     <<[service |-> "s1", username |-> "u1", password |-> <<"x1">>]>>,
     <<[service |-> "s1", username |-> "u1", password |-> <<"x1">>],
       [service |-> "s1", username |-> "u1", password |-> <<"x2">>]>>}

RemoteGrepAnswers ==
    {[status |-> "Err", matches |-> <<>>]}
        \cup {[status |-> "Ok", matches |-> m] : m \in RemoteMatches}

\* The search patterns: one service, any service, no service
Patterns == {"s1", ".", "zz"}

\* The pattern handed to the online vault, which does the matching itself
RemotePatterns == {"s1"}

\* Regex::is_match of the pattern on a service name
IsMatch(pattern, service) == pattern = "." \/ pattern = service

\* The contents of a CSV file to import: unreadable, or its records
CsvFiles(credentials) ==
    {[status |-> "Err", records |-> <<>>]}
        \cup {[status |-> "Ok", records |-> r] :
                  r \in {<<>>} \cup {<<c>> : c \in credentials}}

Range(seq) == {seq[i] : i \in 1..Len(seq)}

Positions(rows) == [i \in 1..Len(rows) |-> i]

\* store::grep(None, pattern): the stored entries whose service matches, in
\* store order; an entry is known by its place in the store
\* (store::grep is not part of the sources; after spec 4.3 search)
store_grep(rows, pattern) ==
    SelectSeq(Positions(rows), LAMBDA i : IsMatch(pattern, rows[i].service))

\* store::delete(entries): the store without the given entries, the others in
\* their order (store::delete is not part of the sources; after spec 4.3 delete)
store_delete(rows, entries) ==
    LET keep == SelectSeq(Positions(rows), LAMBDA i : i \notin Range(entries))
    IN [k \in 1..Len(keep) |-> rows[keep[k]]]

\* password::encrypt_all
encrypt_all(master_pwd, records) ==
    [i \in 1..Len(records) |-> Encrypt(records[i], master_pwd)]

\* ui::ask_index on the table of n matches: a row number from 0, `a` for all
\* (usize::MAX), or `q` to abort (Err)
ask_index(n) ==
    {[kind |-> "index", index |-> i] : i \in 0..(n - 1)}
        \cup {[kind |-> "all", index |-> 0], [kind |-> "abort", index |-> 0]}

\* The answers that delete consults: ask_index is called for several matches only
Choices(matches) == IF Len(matches) > 1 THEN ask_index(Len(matches)) ELSE {NoChoice}

\* A variant of find_matches_result that reports an empty search as an error
find_matches_result_failing_empty(matches) ==
    IF Len(matches) = 0 THEN Err("No matches found") ELSE Ok

\* find_matches, actions.rs 216-219: Ok(matches), whatever their number
find_matches_result(matches) == Ok

\* find_matches, actions.rs 216-218: the line printed
find_matches_out(matches) == IF Len(matches) = 0 THEN "No matches found" ELSE ""

KeychainCall(keychain, name) == IF keychain THEN <<name>> ELSE <<>>

\* A variant of delete_selection that takes the first match whatever row was chosen
delete_selection_first(matches, choice) ==
    IF Len(matches) = 0
    THEN [ask |-> FALSE, entries |-> <<>>, keychain |-> "", out |-> "No matches found"]
    ELSE IF Len(matches) = 1
    THEN [ask |-> FALSE, entries |-> <<matches[1]>>, keychain |-> "keychain::delete",
          out |-> "Deleted credential for service"]
    ELSE IF choice.kind = "abort"
    THEN [ask |-> TRUE, entries |-> <<>>, keychain |-> "", out |-> "aborted"]
    ELSE IF choice.kind = "all"
    THEN [ask |-> TRUE, entries |-> matches, keychain |-> "keychain::delete_all",
          out |-> "Deleted all matches!"]
    ELSE [ask |-> TRUE, entries |-> <<matches[1]>>,
          keychain |-> "keychain::delete", out |-> "Deleted credentials of row"]

\* delete, actions.rs 273-327: which of the matches are deleted, whether
\* ask_index was called, the keychain function used and the line printed
delete_selection(matches, choice) ==
    IF Len(matches) = 0
    THEN [ask |-> FALSE, entries |-> <<>>, keychain |-> "", out |-> "No matches found"]
    ELSE IF Len(matches) = 1
    THEN [ask |-> FALSE, entries |-> <<matches[1]>>, keychain |-> "keychain::delete",
          out |-> "Deleted credential for service"]
    ELSE IF choice.kind = "abort"
    THEN [ask |-> TRUE, entries |-> <<>>, keychain |-> "", out |-> "aborted"]
    ELSE IF choice.kind = "all"
    THEN [ask |-> TRUE, entries |-> matches, keychain |-> "keychain::delete_all",
          out |-> "Deleted all matches!"]
    ELSE [ask |-> TRUE, entries |-> <<matches[choice.index + 1]>>,
          keychain |-> "keychain::delete", out |-> "Deleted credentials of row"]

\* AddAction::save in remote mode, actions.rs 132-145 and 44-51
SaveRemote(master_pwd, creds, keychain, t, answer) ==
    /\ Idle
    /\ has_logged_in(tokenFile)
    /\ call' = [NoCall EXCEPT !.op = "save", !.master_pwd = master_pwd,
                              !.keychain = keychain]
    /\ pre' = Snapshot
    /\ tokenFile' = t.file
    /\ IF t.ret.status # "Ok"
       THEN /\ ret' = t.ret
            /\ calls' = <<"get_access_token">> \o t.calls
            /\ out' = "failed to save"
       ELSE IF answer.status # "Ok"
       THEN /\ ret' = answer
            /\ calls' = <<"get_access_token">> \o t.calls
                        \o <<"online_vault::push_one_credential">>
            /\ out' = "failed to save"
       ELSE /\ ret' = Ok
            /\ calls' = <<"get_access_token">> \o t.calls
                        \o <<"online_vault::push_one_credential">>
                        \o KeychainCall(keychain, "keychain::save")
            /\ out' = "Saved."
    /\ UNCHANGED <<hashFile, storeFile, storeNew, pc, rot>>

\* find_matches(None, grep) in local mode, actions.rs 204-220
FindMatches(grep) ==
    /\ Idle
    /\ ~has_logged_in(tokenFile)
    /\ LET matches == store_grep(storeFile.data, grep)
       IN /\ call' = [NoCall EXCEPT !.op = "find_matches", !.grep = grep,
                                    !.matches = matches]
          /\ out' = find_matches_out(matches)
          /\ ret' = find_matches_result(matches)
    /\ pre' = Snapshot
    /\ calls' = <<"store::grep">>
    /\ UNCHANGED <<hashFile, storeFile, storeNew, tokenFile, pc, rot>>

\* find_matches(None, grep) in remote mode, actions.rs 204-220
FindMatchesRemote(grep, t, answer) ==
    /\ Idle
    /\ has_logged_in(tokenFile)
    /\ pre' = Snapshot
    /\ tokenFile' = t.file
    /\ IF t.ret.status # "Ok"
       THEN /\ call' = [NoCall EXCEPT !.op = "find_matches", !.grep = grep]
            /\ ret' = t.ret
            /\ calls' = <<"get_access_token">> \o t.calls
            /\ out' = ""
       ELSE IF answer.status # "Ok"
       THEN /\ call' = [NoCall EXCEPT !.op = "find_matches", !.grep = grep,
                                      !.answer = answer]
            /\ ret' = Err("online vault")
            /\ calls' = <<"get_access_token">> \o t.calls \o <<"online_vault::grep">>
            /\ out' = ""
       ELSE /\ call' = [NoCall EXCEPT !.op = "find_matches", !.grep = grep,
                                      !.matches = answer.matches, !.answer = answer]
            /\ ret' = find_matches_result(answer.matches)
            /\ calls' = <<"get_access_token">> \o t.calls \o <<"online_vault::grep">>
            /\ out' = find_matches_out(answer.matches)
    /\ UNCHANGED <<hashFile, storeFile, storeNew, pc, rot>>

\* delete in local mode, actions.rs 269-330: find_matches, then the selected
\* entries are handed to store::delete
DeleteLocal(grep, keychain, choice) ==
    /\ Idle
    /\ ~has_logged_in(tokenFile)
    /\ LET matches == store_grep(storeFile.data, grep)
           found == find_matches_result(matches)
           d == delete_selection(matches, choice)
       IN /\ choice \in (IF found.status = "Ok" THEN Choices(matches) ELSE {NoChoice})
          /\ call' = [NoCall EXCEPT !.op = "delete", !.grep = grep, !.keychain = keychain,
                                    !.matches = matches, !.choice = choice]
          /\ IF found.status # "Ok"
             THEN /\ storeFile' = storeFile
                  /\ calls' = <<"store::grep">>
                  /\ out' = find_matches_out(matches)
                  /\ ret' = found
             ELSE /\ storeFile' = IF d.entries = <<>> THEN storeFile
                                  ELSE File(store_delete(storeFile.data, d.entries))
                  /\ calls' = <<"store::grep">>
                              \o (IF d.ask THEN <<"ask_index">> ELSE <<>>)
                              \o (IF d.entries = <<>> THEN <<>>
                                  ELSE <<"store::delete">> \o KeychainCall(keychain, d.keychain))
                  /\ out' = d.out
                  /\ ret' = Ok
    /\ pre' = Snapshot
    /\ UNCHANGED <<hashFile, storeNew, tokenFile, pc, rot>>

\* delete in remote mode, actions.rs 271-276: find_matches on the online vault
DeleteRemoteFind(grep, keychain, t, answer) ==
    /\ Idle
    /\ has_logged_in(tokenFile)
    /\ pre' = Snapshot
    /\ tokenFile' = t.file
    /\ IF t.ret.status # "Ok"
       THEN /\ call' = [NoCall EXCEPT !.op = "delete", !.grep = grep, !.keychain = keychain]
            /\ ret' = t.ret
            /\ calls' = <<"get_access_token">> \o t.calls
            /\ out' = ""
            /\ pc' = "idle"
       ELSE IF answer.status # "Ok"
       THEN /\ call' = [NoCall EXCEPT !.op = "delete", !.grep = grep, !.keychain = keychain,
                                      !.answer = answer]
            /\ ret' = Err("online vault")
            /\ calls' = <<"get_access_token">> \o t.calls \o <<"online_vault::grep">>
            /\ out' = ""
            /\ pc' = "idle"
       ELSE /\ call' = [NoCall EXCEPT !.op = "delete", !.grep = grep, !.keychain = keychain,
                                      !.matches = answer.matches, !.answer = answer]
            /\ calls' = <<"get_access_token">> \o t.calls \o <<"online_vault::grep">>
            /\ out' = find_matches_out(answer.matches)
            /\ IF find_matches_result(answer.matches).status # "Ok"
               THEN ret' = find_matches_result(answer.matches) /\ pc' = "idle"
               ELSE IF Len(answer.matches) = 0
               THEN ret' = Ok /\ pc' = "idle"
               ELSE ret' = NoResult /\ pc' = "delete"
    /\ UNCHANGED <<hashFile, storeFile, storeNew, rot>>

\* delete in remote mode, actions.rs 277-329: the selection, a second
\* get_access_token and online_vault::delete_credentials
DeleteRemoteApply(choice, t, answer) ==
    /\ pc = "delete"
    /\ choice \in Choices(call.matches)
    /\ call' = [call EXCEPT !.choice = choice]
    /\ pc' = "idle"
    /\ LET d == delete_selection(call.matches, choice)
           asked == calls \o (IF d.ask THEN <<"ask_index">> ELSE <<>>)
       IN IF d.entries = <<>>
          THEN /\ ret' = Ok
               /\ calls' = asked
               /\ out' = d.out
               /\ tokenFile' = tokenFile
          ELSE IF ~has_logged_in(tokenFile)
          THEN /\ ret' = Ok
               /\ calls' = asked \o <<"store::delete">> \o KeychainCall(call.keychain, d.keychain)
               /\ out' = d.out
               /\ tokenFile' = tokenFile
          ELSE /\ tokenFile' = t.file
               /\ IF t.ret.status # "Ok"
                  THEN /\ ret' = t.ret
                       /\ calls' = asked \o <<"get_access_token">> \o t.calls
                       /\ out' = ""
                  ELSE IF answer.status # "Ok"
                  THEN /\ ret' = answer
                       /\ calls' = asked \o <<"get_access_token">> \o t.calls
                                   \o <<"online_vault::delete_credentials">>
                       /\ out' = ""
                  ELSE /\ ret' = Ok
                       /\ calls' = asked \o <<"get_access_token">> \o t.calls
                                   \o <<"online_vault::delete_credentials">>
                                   \o KeychainCall(call.keychain, d.keychain)
                       /\ out' = d.out
    /\ UNCHANGED <<hashFile, storeFile, storeNew, rot, pre>>

\* import_csv in local mode, actions.rs 353-362 and 380-383: store::import_csv
\* appends the records of the file, encrypted (store::import_csv is not part
\* of the sources; after spec 4.3 append)
ImportLocal(master_pwd, csv) ==
    /\ Idle
    /\ ~has_logged_in(tokenFile)
    /\ Len(storeFile.data) + Len(csv.records) <= MaxRecords
    /\ call' = [NoCall EXCEPT !.op = "import_csv", !.master_pwd = master_pwd]
    /\ pre' = Snapshot
    /\ calls' = <<"store::import_csv">>
    /\ IF csv.status = "Ok"
       THEN /\ storeFile' = File(storeFile.data \o encrypt_all(master_pwd, csv.records))
            /\ ret' = Ok
            /\ out' = "Imported entries"
       ELSE /\ storeFile' = storeFile
            /\ ret' = Err("csv")
            /\ out' = "Failed to import"
    /\ UNCHANGED <<hashFile, storeNew, tokenFile, pc, rot>>

\* import_csv in remote mode, actions.rs 353-375 and 380-383
ImportRemote(master_pwd, csv, t, answer) ==
    /\ Idle
    /\ has_logged_in(tokenFile)
    /\ call' = [NoCall EXCEPT !.op = "import_csv", !.master_pwd = master_pwd]
    /\ pre' = Snapshot
    /\ tokenFile' = t.file
    /\ IF t.ret.status # "Ok"
       THEN /\ ret' = t.ret
            /\ calls' = <<"get_access_token">> \o t.calls
            /\ out' = "Failed to import"
       ELSE IF csv.status # "Ok"
       THEN /\ ret' = Err("csv")
            /\ calls' = <<"get_access_token">> \o t.calls \o <<"store::read_from_csv">>
            /\ out' = "Failed to import"
       ELSE IF answer.status # "Ok"
       THEN /\ ret' = answer
            /\ calls' = <<"get_access_token">> \o t.calls
                        \o <<"store::read_from_csv", "online_vault::push_credentials">>
            /\ out' = "Failed to import"
       ELSE /\ ret' = Ok
            /\ calls' = <<"get_access_token">> \o t.calls
                        \o <<"store::read_from_csv", "online_vault::push_credentials">>
            /\ out' = "Imported entries"
    /\ UNCHANGED <<hashFile, storeFile, storeNew, pc, rot>>

\* A variant of UpdateMasterPasswordRemote that saves the new hash as soon as
\* the token is there, before the online vault has answered
UpdateMasterPasswordRemoteEager(old, new, salt, t, answer) ==
    /\ Idle
    /\ has_logged_in(tokenFile)
    /\ pre' = Snapshot
    /\ tokenFile' = t.file
    /\ IF t.ret.status # "Ok"
       THEN /\ call' = [NoCall EXCEPT !.op = "update_master_password",
                                      !.old = old, !.new = new]
            /\ ret' = t.ret
            /\ calls' = <<"get_access_token">> \o t.calls
            /\ out' = execute_outcome(t.ret)
            /\ hashFile' = hashFile
       ELSE /\ call' = [NoCall EXCEPT !.op = "update_master_password",
                                      !.old = old, !.new = new, !.answer = answer]
            /\ ret' = answer
            /\ calls' = <<"get_access_token">> \o t.calls
                        \o <<"save_master_password", "online_vault::update_master_password">>
            /\ out' = execute_outcome(answer)
            /\ hashFile' = save_master_password(new, salt)
    /\ UNCHANGED <<storeFile, storeNew, pc, rot>>

\* update_master_password in remote mode, actions.rs 390-397 and 405-419:
\* `?` returns the error of get_access_token or of the online vault before
\* store::save_master_password is reached
UpdateMasterPasswordRemote(old, new, salt, t, answer) ==
    /\ Idle
    /\ has_logged_in(tokenFile)
    /\ pre' = Snapshot
    /\ tokenFile' = t.file
    /\ IF t.ret.status # "Ok"
       THEN /\ call' = [NoCall EXCEPT !.op = "update_master_password",
                                      !.old = old, !.new = new]
            /\ ret' = t.ret
            /\ calls' = <<"get_access_token">> \o t.calls
            /\ out' = execute_outcome(t.ret)
            /\ hashFile' = hashFile
       ELSE IF answer.status # "Ok"
       THEN /\ call' = [NoCall EXCEPT !.op = "update_master_password",
                                      !.old = old, !.new = new, !.answer = answer]
            /\ ret' = answer
            /\ calls' = <<"get_access_token">> \o t.calls
                        \o <<"online_vault::update_master_password">>
            /\ out' = execute_outcome(answer)
            /\ hashFile' = hashFile
       ELSE /\ call' = [NoCall EXCEPT !.op = "update_master_password",
                                      !.old = old, !.new = new, !.answer = answer]
            /\ ret' = Ok
            /\ calls' = <<"get_access_token">> \o t.calls
                        \o <<"online_vault::update_master_password", "save_master_password">>
            /\ out' = execute_outcome(Ok)
            /\ hashFile' = save_master_password(new, salt)
    /\ UNCHANGED <<storeFile, storeNew, pc, rot>>

FacadeNext ==
    \/ \E l \in FacadeAnswers : Login(l)
    \/ \E p \in FacadePasswords, c \in FacadeCredentials, k \in BOOLEAN : Save(p, c, k)
    \/ \E t \in TokenOutcomes(tokenFile) :
           \E p \in FacadePasswords, c \in FacadeCredentials, k \in BOOLEAN, a \in RemoteAnswers :
               SaveRemote(p, c, k, t, a)
    \/ \E g \in Patterns : FindMatches(g)
    \/ \E t \in TokenOutcomes(tokenFile) :
           \E g \in RemotePatterns, a \in RemoteGrepAnswers : FindMatchesRemote(g, t, a)
    \/ \E g \in Patterns, k \in BOOLEAN, c \in ask_index(MaxRecords) \cup {NoChoice} :
           DeleteLocal(g, k, c)
    \/ \E t \in TokenOutcomes(tokenFile) :
           \E g \in RemotePatterns, k \in BOOLEAN, a \in RemoteGrepAnswers :
               DeleteRemoteFind(g, k, t, a)
    \/ \E t \in TokenOutcomes(tokenFile) :
           \E c \in ask_index(MaxRecords) \cup {NoChoice}, a \in RemoteAnswers :
               DeleteRemoteApply(c, t, a)
    \/ \E p \in FacadePasswords, f \in CsvFiles(FacadeCredentials) : ImportLocal(p, f)
    \/ \E t \in TokenOutcomes(tokenFile) :
           \E p \in FacadePasswords, f \in CsvFiles(FacadeCredentials), a \in RemoteAnswers : ImportRemote(p, f, t, a)
    \/ \E o \in Passwords, n \in Passwords : UpdateMasterPassword(o, n)
    \/ RotateRow
    \/ \E s \in FacadeSalts : RotateSaveHash(s)
    \/ RotateRename
    \/ RotateReturn
    \/ \E t \in TokenOutcomes(tokenFile) :
           \E o \in FacadePasswords, n \in Passwords, s \in FacadeSalts, a \in RemoteAnswers :
               UpdateMasterPasswordRemote(o, n, s, t, a)

FacadeSpec == Init /\ [][FacadeNext]_vars

\* The local commands on the record store alone, with more varied records
LocalNext ==
    \/ \E p \in Passwords, c \in PlainCredentials, k \in BOOLEAN : Save(p, c, k)
    \/ \E g \in Patterns : FindMatches(g)
    \/ \E g \in Patterns, k \in BOOLEAN, c \in ask_index(MaxRecords) \cup {NoChoice} :
           DeleteLocal(g, k, c)
    \/ \E p \in Passwords, f \in CsvFiles(PlainCredentials) : ImportLocal(p, f)

LocalSpec == Init /\ [][LocalNext]_vars

(***************************************************************************)
(* Claims about the rotation (checked under Spec)                          *)
(***************************************************************************)
Rotating == call.op = "update_master_password"

\* The rows of `file` decrypted with `old` and encrypted again with `new`
ReEncrypted(file, old, new) ==
    File([i \in 1..Len(file.data) |-> Encrypt(Decrypt(file.data[i], old), new)])

SomeRowUndecryptable ==
    \E k \in 1..Len(pre.store.data) : ~DecryptOk(pre.store.data[k], call.old)

\* C1: when update_master_password(old, new) runs on a store of N >= 1 records
\* and some record k does not decrypt under old, the store file stays exactly
\* the original N records in their order, during the call and after it, and
\* the call (unless the process is ended from outside) returns an error.
C1_WrongOldLeavesStore ==
    (Rotating /\ pre.store.exists /\ SomeRowUndecryptable)
        => /\ storeFile = pre.store
           /\ (pc = "idle" /\ ret.status \notin {"Killed", "Panic"}) => ret.status = "Err"

\* C1 witness: the second of two records fails, after the first went to wtr
C1_Witness ==
    /\ Rotating /\ pc = "idle" /\ ret.status = "Err"
    /\ Len(pre.store.data) = 2
    /\ DecryptOk(pre.store.data[1], call.old)
    /\ ~DecryptOk(pre.store.data[2], call.old)
    /\ Len(storeNew.data) = 1
    /\ storeFile = pre.store

\* C2 (as claimed): once the rotation has saved the hash of the new
\* password, the store file holds the re-encrypted records.
C2_HashOnlyAfterStore ==
    (Rotating /\ "save_master_password" \in {calls[i] : i \in 1..Len(calls)}
              /\ hashFile.exists /\ BcryptVerify(call.new, hashFile.data))
        => storeFile = ReEncrypted(pre.store, call.old, call.new)

\* C3 (as claimed): a rotation whose old password does not verify against
\* the persisted hash changes neither the hash file nor the store file.
C3_RotationVerifiesOld ==
    (Rotating /\ pre.hash.exists /\ ~BcryptVerify(call.old, pre.hash.data))
        => hashFile = pre.hash /\ storeFile = pre.store

\* C4 (as claimed): the command prints "Password changed" only if
\* store::update_master_password returned Ok.
C4_SuccessOnlyIfRotated ==
    (Rotating /\ out = "Password changed") => ret.status = "Ok"

\* C10: with no hash persisted and store_if_new set, verify_master_password
\* asks for the re-entry; it persists the hash of the candidate and returns
\* Ok when the re-entry equals the candidate, and otherwise fails with
\* "Passwords did not match" and leaves the hash file absent.
C10_Registration ==
    (call.op = "verify_master_password" /\ ~pre.hash.exists /\ call.store_if_new)
        => /\ calls = <<"ask_password">>
           /\ IF call.retyped = call.master_pwd
              THEN /\ ret = Ok
                   /\ hashFile.exists
                   /\ BcryptVerify(call.master_pwd, hashFile.data)
              ELSE /\ ret = Err("Passwords did not match")
                   /\ hashFile = NoFile

\* C10 witness: a registration whose re-entry matched
C10_Witness ==
    /\ call.op = "verify_master_password" /\ ~pre.hash.exists /\ call.store_if_new
    /\ call.retyped = call.master_pwd
    /\ hashFile.exists
    /\ ret = Ok

\* C11: when a hash is persisted, verify_master_password returns Ok exactly
\* when the candidate verifies against it and Err("Incorrect password")
\* otherwise; it asks for no re-entry and leaves the hash file as it was; and
\* no operation other than a rotation replaces a persisted hash.
C11_VerifyAgainstSaved ==
    /\ (call.op = "verify_master_password" /\ pre.hash.exists)
           => /\ ret = (IF BcryptVerify(call.master_pwd, pre.hash.data)
                       THEN Ok ELSE Err("Incorrect password"))
              /\ calls = <<>>
              /\ hashFile = pre.hash
    /\ (pre.hash.exists /\ ~Rotating) => hashFile = pre.hash

\* C11 witness: a wrong candidate was rejected against the persisted hash,
\* with store_if_new set
C11_Witness ==
    /\ call.op = "verify_master_password" /\ pre.hash.exists
    /\ call.store_if_new
    /\ ~BcryptVerify(call.master_pwd, pre.hash.data)
    /\ ret = Err("Incorrect password")

\* C14 (as claimed): at every instant of a rotation, and after it has ended
\* in whatever way, the store file holds either all the original records or
\* all the re-encrypted records, never a part of them.
C14_SwapAllOrNothing ==
    (Rotating /\ pre.store.exists)
        => \/ storeFile = pre.store
           \/ storeFile = ReEncrypted(pre.store, call.old, call.new)

\* store::update_master_password has returned Ok(true)
RotationSucceeded == Rotating /\ pc = "idle" /\ ret = Ok

\* C15: after a successful rotation the store has as many records as before,
\* the i-th record has the service and the username of the i-th record
\* before, and its password decrypts under the new password to the plaintext
\* that the old record decrypted to under the old password.
C15_RotationKeepsRecords ==
    RotationSucceeded
        => /\ Len(storeFile.data) = Len(pre.store.data)
           /\ \A i \in 1..Len(pre.store.data) :
                 /\ storeFile.data[i].service = pre.store.data[i].service
                 /\ storeFile.data[i].username = pre.store.data[i].username
                 /\ DecryptOk(pre.store.data[i], call.old)
                 /\ DecryptOk(storeFile.data[i], call.new)
                 /\ Decrypt(storeFile.data[i], call.new) = Decrypt(pre.store.data[i], call.old)

\* C15 witness: two records with different services went from one password
\* to another
C15_Witness ==
    /\ RotationSucceeded
    /\ call.old # call.new
    /\ Len(pre.store.data) = 2
    /\ pre.store.data[1].service # pre.store.data[2].service
    /\ Len(storeFile.data) = 2

\* C18: the guard only moves from Uninitialized to Registered: no step of a
\* verification, a registration or a rotation (successful, failed or
\* interrupted) takes a persisted hash file away (the hash lives in the one
\* file .master_pwd, so there is never more than one).
C18_GuardStaysRegistered ==
    [][hashFile.exists => hashFile'.exists]_vars

\* C18 witness: a registered vault after a rotation that failed
C18_Witness ==
    /\ Rotating /\ pc = "idle" /\ ret.status = "Err"
    /\ pre.hash.exists
    /\ hashFile.exists

\* The hash verifies exactly the passwords under which the records decrypt
HashMatchesStore(hash, store) ==
    hash.exists
        => \A i \in 1..Len(store.data) : \A p \in Passwords :
               DecryptOk(store.data[i], p) <=> BcryptVerify(p, hash.data)

\* C20 (as claimed): when a rotation that began on a vault whose hash and
\* store agreed is over (it returned Ok, returned an error or was
\* interrupted), the persisted hash verifies exactly the password under
\* which every record of the store decrypts.
C20_HashMatchesStore ==
    (Rotating /\ pc = "idle" /\ HashMatchesStore(pre.hash, pre.store))
        => HashMatchesStore(hashFile, storeFile)

\* C22: with no hash persisted, verify_master_password called with
\* store_if_new = false returns Ok for every candidate, asks for nothing and
\* persists nothing: the hash file stays absent and the store is untouched.
C22_UnregisteredAcceptsAll ==
    (call.op = "verify_master_password" /\ ~pre.hash.exists /\ ~call.store_if_new)
        => /\ ret = Ok
           /\ calls = <<>>
           /\ hashFile = NoFile
           /\ storeFile = pre.store

\* C22 witness: a candidate under which no record of the store decrypts was
\* accepted on a vault without hash
C22_Witness ==
    /\ call.op = "verify_master_password" /\ ~pre.hash.exists /\ ~call.store_if_new
    /\ Len(storeFile.data) >= 1
    /\ \A i \in 1..Len(storeFile.data) : ~DecryptOk(storeFile.data[i], call.master_pwd)
    /\ ret = Ok
    /\ ~hashFile.exists

(***************************************************************************)
(* Claims about the token slot (checked under TokenSpec)                   *)
(***************************************************************************)
Obtaining == call.op = "get_access_token"

Loaded == store_get_access_token(pre.token)

\* The four fields of a token as they stand in the slot
TokenFields(t) ==
    <<t.access_token,
      IF t.refresh_token = None THEN <<>> ELSE t.refresh_token[1],
      IF t.expires_in = None THEN <<"0">> ELSE I64ToStr(t.expires_in[1]),
      t.created_timestamp>>

\* The slot holds the token t complete: its first four fields are those of t
SlotHolds(file, t) ==
    /\ file.exists
    /\ Len(Split(file.data)) >= 4
    /\ SubSeq(Split(file.data), 1, 4) = TokenFields(t)

\* C5 (as claimed): the token is expired, the refresh fails and the login
\* answers T2: get_access_token returns T2 and loading the slot yields T2.
C5_LoginFallbackStoresT2 ==
    (Obtaining /\ pc = "idle" /\ call.refresh.status = "Err" /\ call.login.status = "Ok")
        => /\ ret = call.login
           /\ store_get_access_token(tokenFile) = call.login

\* C6 (as claimed): after a login has stored the token T, whatever the slot
\* held before, loading the slot yields T in all four fields.
C6_StoreLoadRoundTrip ==
    (call.op = "login" /\ call.login.status = "Ok")
        => store_get_access_token(tokenFile) = call.login

\* C7: with no token slot, loading fails with the not-logged-in error, and
\* get_access_token returns a not-logged-in error at once: neither refresh
\* nor login is called and no slot is created.
C7_NotLoggedIn ==
    (Obtaining /\ ~pre.token.exists)
        => /\ Loaded = Err("Please login first with: passlane -l")
           /\ pc = "idle"
           /\ ret = Err("You are not logged in to the Passlane Online Vault.")
           /\ calls = <<>>
           /\ tokenFile = NoFile

\* C7 witness: get_access_token was called on a vault without token slot
C7_Witness ==
    Obtaining /\ ~pre.token.exists /\ ret.status = "Err" /\ ~tokenFile.exists

\* C8: when the persisted token is not expired, get_access_token returns the
\* loaded token, calls neither refresh nor login and leaves the slot as it was.
C8_ValidTokenReturned ==
    (Obtaining /\ Loaded.status = "Ok" /\ ~is_expired(Loaded.token[1], call.now))
        => /\ pc = "idle"
           /\ ret = Loaded
           /\ calls = <<>>
           /\ tokenFile = pre.token

\* C8 witness: a token with an expiry that has not been reached yet
C8_Witness ==
    /\ Obtaining /\ Loaded.status = "Ok" /\ ~is_expired(Loaded.token[1], call.now)
    /\ Loaded.token[1].expires_in # None
    /\ ret = Loaded

\* C9: when the refresh and the login both fail, get_access_token returns an
\* error and the slot is the previous one, byte for byte; and in every branch
\* and at every step of the call the slot is either the previous one or holds
\* the complete token that the call returns.
C9_SlotPreviousOrNew ==
    Obtaining
        => /\ (pc = "idle" /\ call.refresh.status = "Err" /\ call.login.status = "Err")
                  => (ret.status = "Err" /\ tokenFile = pre.token)
           /\ \/ tokenFile = pre.token
              \/ ret.status = "Ok" /\ SlotHolds(tokenFile, ret.token[1])

\* C9 witness: the refresh and the login both failed
C9_Witness ==
    /\ Obtaining /\ pc = "idle"
    /\ call.refresh.status = "Err" /\ call.login.status = "Err"
    /\ pre.token.exists
    /\ ret.status = "Err"

\* The answer whose token the last operation stored, Unused if it stored none
StoredAnswer ==
    IF call.op \in {"login", "get_access_token"} /\ call.login.status = "Ok"
    THEN call.login
    ELSE IF Obtaining /\ call.refresh.status = "Ok" THEN call.refresh ELSE Unused

\* C16 (as claimed): after a login or a refresh has stored a token, the slot
\* contains that token only: the file is the four fields of the token and
\* nothing of what it held before.
C16_SlotHoldsLatestOnly ==
    StoredAnswer.status = "Ok"
        => tokenFile = File(format_token(StoredAnswer.token[1]))

\* How often the collaborator c was called
CallCount(c) == Cardinality({i \in 1..Len(calls) : calls[i] = c})

\* C17: within one get_access_token call the refresh is attempted at most
\* once; the login is attempted at most once, and only right after that
\* refresh has failed; and the call never returns on a failed refresh alone:
\* when it has returned after a failed refresh, the login was attempted and
\* the call returned what the login answered.
C17_FallbackSequential ==
    Obtaining
        => /\ CallCount("exchange_refresh_token") <= 1
           /\ CallCount("login") <= 1
           /\ CallCount("login") = 1
                  => /\ Len(calls) >= 2
                     /\ calls[1] = "exchange_refresh_token"
                     /\ calls[2] = "login"
                     /\ call.refresh.status = "Err"
           /\ (pc = "idle" /\ call.refresh.status = "Err")
                  => /\ CallCount("login") = 1
                     /\ call.login.status \in {"Ok", "Err"}
                     /\ ret = call.login
           /\ (pc = "login") => (call.refresh.status = "Err" /\ calls = <<"exchange_refresh_token">>)

\* C17 witness: the refresh failed and the login that followed failed too
C17_Witness ==
    /\ Obtaining /\ pc = "idle"
    /\ calls = <<"exchange_refresh_token", "login">>
    /\ call.refresh.status = "Err"
    /\ ret = call.login
    /\ ret.status = "Err"

(***************************************************************************)
(* Claims about the local commands (checked under LocalSpec)               *)
(***************************************************************************)
\* The places in the store that the user selected in the last delete
SelectedPlaces ==
    IF Len(call.matches) = 0 THEN {}
    ELSE IF Len(call.matches) = 1 THEN {call.matches[1]}
    ELSE IF call.choice.kind = "all" THEN Range(call.matches)
    ELSE IF call.choice.kind = "index" THEN {call.matches[call.choice.index + 1]}
    ELSE {}

\* The places of the store before the delete that were not selected, in order
UnselectedPlaces ==
    SelectSeq(Positions(pre.store.data), LAMBDA i : i \notin SelectedPlaces)

MatchedNothing ==
    IF pre.token.exists
    THEN call.answer.status = "Ok" /\ call.answer.matches = <<>>
    ELSE store_grep(pre.store.data, call.grep) = <<>>

\* The calls that change the online vault or the keychain, or ask the user
\* which match to delete
ChangingCalls ==
    {"online_vault::push_one_credential", "online_vault::push_credentials",
     "online_vault::delete_credentials", "online_vault::update_master_password",
     "keychain::save", "keychain::delete", "keychain::delete_all",
     "store::delete", "ask_index"}

\* C13: a search that matches nothing is a success: find_matches returns Ok
\* with no matches, and a delete whose pattern matches nothing returns Ok
\* and changes neither the local store nor the online vault nor the keychain.
C13_NoMatchIsSuccess ==
    (call.op \in {"find_matches", "delete"} /\ MatchedNothing)
        => /\ pc = "idle"
           /\ ret = Ok
           /\ call.matches = <<>>
           /\ storeFile = pre.store
           /\ hashFile = pre.hash
           /\ Range(calls) \cap ChangingCalls = {}

\* C13 witness: a delete with the keychain flag in remote mode, for which
\* the online vault found nothing
C13_Witness ==
    /\ call.op = "delete" /\ pre.token.exists /\ call.keychain
    /\ call.answer.status = "Ok" /\ call.answer.matches = <<>>
    /\ "online_vault::grep" \in Range(calls)
    /\ ret = Ok

\* The commands that are routed by the login state
RoutedOps == {"save", "find_matches", "delete", "import_csv", "update_master_password"}

\* The functions of the local record store and of the online vault that a
\* command is routed to, and the calls that load, refresh or store a token
LocalCalls(op) ==
    IF op = "save" THEN {"store::save"}
    ELSE IF op = "find_matches" THEN {"store::grep"}
    ELSE IF op = "delete" THEN {"store::grep", "store::delete"}
    ELSE IF op = "import_csv" THEN {"store::import_csv"}
    ELSE {"store::update_master_password"}

RemoteCalls(op) ==
    IF op = "save" THEN {"online_vault::push_one_credential"}
    ELSE IF op = "find_matches" THEN {"online_vault::grep"}
    ELSE IF op = "delete" THEN {"online_vault::grep", "online_vault::delete_credentials"}
    ELSE IF op = "import_csv" THEN {"online_vault::push_credentials"}
    ELSE {"online_vault::update_master_password"}

AllLocalCalls == UNION {LocalCalls(op) : op \in RoutedOps}

AllRemoteCalls == UNION {RemoteCalls(op) : op \in RoutedOps}

TokenCalls == {"get_access_token", "exchange_refresh_token", "login", "store_access_token"}

\* C19: save, search, delete, import and rotate are routed by the login
\* state.  With the token file present the command takes the remote branch:
\* it first obtains the token, calls no function of the local record store
\* and leaves the store file as it was, and when it returns Ok it has called
\* its function of the online vault.  With the token file absent it takes
\* the local branch: its first call is its function of the local record
\* store, it calls neither the online vault nor anything that loads,
\* refreshes or stores a token, and no token file appears.
C19_RoutingByLoginState ==
    (call.op \in RoutedOps)
        => IF pre.token.exists
           THEN /\ Len(calls) >= 1 /\ calls[1] = "get_access_token"
                /\ Range(calls) \cap AllLocalCalls = {}
                /\ storeFile = pre.store
                /\ tokenFile.exists
                /\ (pc = "idle" /\ ret = Ok)
                       => Range(calls) \cap RemoteCalls(call.op) # {}
           ELSE /\ Len(calls) >= 1 /\ calls[1] \in LocalCalls(call.op)
                /\ Range(calls) \cap (AllRemoteCalls \cup TokenCalls) = {}
                /\ tokenFile = NoFile

\* C19 witness: a delete in remote mode went through on a vault whose local
\* store holds records
C19_Witness ==
    /\ call.op = "delete" /\ pre.token.exists
    /\ Len(pre.store.data) >= 1
    /\ "online_vault::delete_credentials" \in Range(calls)
    /\ ret = Ok
    /\ storeFile = pre.store

\* The place of the first call of c in `calls`, 0 if it was not called
FirstCall(c) ==
    IF c \in Range(calls)
    THEN CHOOSE i \in 1..Len(calls) : calls[i] = c /\ \A j \in 1..(i - 1) : calls[j] # c
    ELSE 0

RotatingRemote == call.op = "update_master_password" /\ pre.token.exists

\* C21: in remote mode the rotation writes the local hash file only after
\* get_access_token returned a token and the online vault answered the
\* rotation with Ok, and then it holds the hash of the new password; when
\* the token is not obtained or the online vault fails, the hash file is as
\* it was, the function returns the error and the command reports the failure.
C21_RemoteHashAfterSuccess ==
    RotatingRemote
        => IF "save_master_password" \in Range(calls)
           THEN /\ call.answer = Ok
                /\ ret = Ok
                /\ FirstCall("get_access_token") = 1
                /\ FirstCall("online_vault::update_master_password") > 1
                /\ FirstCall("save_master_password") = Len(calls)
                /\ FirstCall("online_vault::update_master_password") = Len(calls) - 1
                /\ hashFile.exists /\ BcryptVerify(call.new, hashFile.data)
           ELSE /\ call.answer.status \in {"Unused", "Err"}
                /\ hashFile = pre.hash
                /\ ret.status # "Ok"
                /\ out = "Error: Failed to update master password"

\* C21 witness: the token was obtained, the online vault refused the
\* rotation, and the hash persisted before is still there
C21_Witness ==
    /\ RotatingRemote
    /\ call.answer.status = "Err"
    /\ pre.hash.exists
    /\ ~BcryptVerify(call.new, pre.hash.data)
    /\ hashFile = pre.hash
    /\ ret.status = "Err"

====
